---- MODULE Spec2Model ----
(***************************************************************************)
(* py_executer: a launcher that resolves or provisions a Python venv,      *)
(* installs dependencies, composes the child's environment, runs the       *)
(* target script and maps its exit status.                                 *)
(*                                                                         *)
(* The repository holds entry points of different revisions:               *)
(*   "main"   - src/src/main.rs   main()                                   *)
(*   "python" - src/src/python.rs python()                                 *)
(*   "venv"   - src/src/lib/uv.rs venv(), the uv-managed resolver          *)
(*   "uv"     - src/src/uv.rs     uv(), the uv pass-through                *)
(* One run of the model is one invocation of one of them (Spec).           *)
(* SpecCompose runs the Composer on varied inputs, SpecStream runs         *)
(* stream_output with its two reader threads (SpecStreamLive adds the      *)
(* scheduling fairness), SpecInject applies append_pwd_to_pythonpath       *)
(* repeatedly.                                                             *)
(*                                                                         *)
(* Modelling conventions                                                   *)
(*  - a path is the sequence of its components, "/" being the root         *)
(*    component (std::path::Component::RootDir); the empty sequence is the *)
(*    empty path;                                                          *)
(*  - a string that the code parses or searches (an override, a PYTHONPATH *)
(*    value) is the sequence of its tokens;                                *)
(*  - a map (HashMap, the process environment) is a set of <<key, value>>  *)
(*    pairs with unique keys;                                              *)
(*  - an external tool (which, uv, python, the target) is an environment   *)
(*    choice of its exit status and of its effect on the file system.      *)
(*    Helper tools that were located are assumed to start; only the spawn  *)
(*    of the target, which the code handles, can fail.                     *)
(***************************************************************************)
EXTENDS Integers, Sequences, FiniteSets, TLC

VARIABLES
    entry,              \* "main" | "python" | "venv": the entry point of this run
    args,               \* the parsed command line (struct Args / parameters of python())
    host,               \* what the executable search finds: [uv, python3]
    fs,                 \* the absolute paths that exist on disk
    fs0,                \* fs as it was when the run started (never changes)
    inherited,          \* the environment the process was started with (never changes)
    environ,            \* the process environment (std::env::vars)
    env_file_content,   \* the key/value pairs of the dotenv file, when it exists
    pc,                 \* position of the run
    script_path,        \* result of validate_to_absolute_path(&args.script)
    runtime_path,       \* current_dir() (main) or project.canonicalize() (python)
    uv_path,            \* "" encodes "not found"
    python_native_path, \* "" encodes "not found"
    venv,               \* the resolved environment directory
    files_to_clean,     \* the cleanup manifest (Vec<PathBuf>)
    additional_env,     \* result of set_additional_env_var
    printed,            \* the messages the run has printed so far
    calls,              \* the subprocesses started so far, in order
    child,              \* the target process: [state, env, status, observed]
    result,             \* the Supervisor's outcome (ExitCode), -1 before
    removal_attempts,   \* paths on which cleanup attempted a removal
    exit_code,          \* the process exit code, -1 while running
    io                  \* the pipes, reader threads and parent streams of stream_output

vars == << entry, args, host, fs, fs0, inherited, environ, env_file_content, pc, script_path,
           runtime_path, uv_path, python_native_path, venv, files_to_clean,
           additional_env, printed, calls, child, result, removal_attempts,
           exit_code, io >>

----------------------------------------------------------------------------
(* Bounds *)

\* longest override string, in tokens
MaxStrLen == 3
\* most override strings on one command line
MaxOverrides == 2
\* largest exit code of the target script
MaxExitCode == 2

----------------------------------------------------------------------------
(* Results, maps, strings *)

Ok(v) == [ok |-> TRUE, val |-> v]
Err == [ok |-> FALSE, val |-> << >>]

EmptyMap == {}
Keys(m) == {p[1] : p \in m}
HasKey(m, k) == k \in Keys(m)
Get(m, k) == (CHOOSE p \in m : p[1] = k)[2]
\* HashMap::insert
Insert(m, k, v) == {p \in m : p[1] # k} \cup {<<k, v>>}
\* HashMap::extend / Command::envs: every pair of m2 is inserted into m1
Extend(m1, m2) == {p \in m1 : ~HasKey(m2, p[1])} \cup m2

\* str::contains
Contains(s, sub) ==
    \E i \in 1..(Len(s) + 1) :
        /\ i + Len(sub) - 1 <= Len(s)
        /\ SubSeq(s, i, i + Len(sub) - 1) = sub

\* str::find('='): the index of the first '=', 0 when there is none
RECURSIVE FindFrom(_, _)
FindFrom(s, i) ==
    IF i > Len(s) THEN 0
    ELSE IF s[i] = "=" THEN i
    ELSE FindFrom(s, i + 1)
\* the index of the last '=' instead (str::rfind)
rfind(s) ==
    IF \E i \in 1..Len(s) : s[i] = "="
    THEN CHOOSE i \in 1..Len(s) : s[i] = "=" /\ \A j \in (i + 1)..Len(s) : s[j] # "="
    ELSE 0

find(s) == FindFrom(s, 1)

\* All sequences over S of length at most n
RECURSIVE SeqsUpTo(_, _)
SeqsUpTo(S, n) ==
    IF n = 0 THEN {<< >>}
    ELSE LET shorter == SeqsUpTo(S, n - 1)
         IN shorter \cup {Append(s, x) : s \in shorter, x \in S}

----------------------------------------------------------------------------
(* Paths and the file system *)

cwd == <<"/", "proj">>

IsAbsolute(p) == Len(p) > 0 /\ p[1] = "/"
\* PathBuf::join: an absolute argument replaces the base
join(p, q) == IF IsAbsolute(q) THEN q ELSE p \o q
\* how the OS resolves a path: relative paths are taken from the working directory
Absolute(p) == join(cwd, p)
\* Path::exists: the empty path names nothing
exists(f, p) == p # << >> /\ Absolute(p) \in f
\* a canonicalize that resolves the empty path to the working directory
canonicalize_EmptyIsCwd(f, p) == IF Absolute(p) \in f THEN Ok(Absolute(p)) ELSE Err

\* Path::canonicalize: fails on a path that does not exist, the empty path included
canonicalize(f, p) == IF exists(f, p) THEN Ok(Absolute(p)) ELSE Err
IsPrefix(p, q) == Len(p) <= Len(q) /\ SubSeq(q, 1, Len(p)) = p

\* Path::to_string_lossy of an absolute path: components joined by the separator
RECURSIVE to_string_lossy(_)
to_string_lossy(p) ==
    IF p = << >> THEN << >>
    ELSE IF Len(p) = 1 THEN p
    ELSE IF p[1] = "/" THEN <<"/">> \o to_string_lossy(Tail(p))
    ELSE <<p[1], "/">> \o to_string_lossy(Tail(p))

get_python_exec_path(venv_path) == venv_path \o <<"bin", "python">>

ProjectDir == <<"/", "proj">>
ScriptFile == ProjectDir \o <<"test.py">>
VenvDirs == {ProjectDir \o <<"venv">>, ProjectDir \o <<".venv">>, <<"/", "opt", "env">>}
\* what the code treats as directories (Path::is_dir of an existing path)
is_dir(f, p) == p \in f /\ p \in VenvDirs


----------------------------------------------------------------------------
(* Executable Locator *)

UvExe == "/usr/bin/uv"
PythonExe == "/usr/bin/python3"

\* `which uv`: Ok(path) when the search command succeeds, Err otherwise
get_uv_path(h) == IF h.uv THEN Ok(UvExe) ELSE [ok |-> FALSE, val |-> ""]

\* get_uv_path().unwrap_or("".to_string())
uv_path_or_empty(h) == IF get_uv_path(h).ok THEN get_uv_path(h).val ELSE ""

\* `which python3`, asked only when uv was not found
get_python_native_path(h, uv) ==
    IF uv = "" THEN (IF h.python3 THEN PythonExe ELSE "") ELSE ""

\* the subprocesses the locator starts
LocatorCalls(h) ==
    <<[cmd |-> "which uv", ok |-> h.uv]>>
    \o (IF uv_path_or_empty(h) = "" THEN <<[cmd |-> "which python3", ok |-> h.python3]>>
        ELSE << >>)

\* the test with one negation slipped
NoExecutable_UvOnly(py, uv) == py = "" /\ uv # ""

\* python_native_path.is_empty() && uv_path.is_empty()
NoExecutable(py, uv) == py = "" /\ uv = ""

----------------------------------------------------------------------------
(* Script validation *)

validate_to_absolute_path(f, p) ==
    LET r == canonicalize(f, p)
    IN IF r.ok THEN (IF ~exists(f, r.val) THEN Err ELSE Ok(r.val)) ELSE Err

----------------------------------------------------------------------------
(* Environment Directory Resolver (main.rs, lib/path.rs) *)

\* a validation that rejects every candidate
validate_venv_Rejecting(f, venv_path) == Err

validate_venv(f, venv_path) ==
    IF ~exists(f, venv_path) THEN Err
    ELSE IF ~exists(f, get_python_exec_path(venv_path)) THEN Err
    ELSE Ok(venv_path)

\* the conventional names in the other order
possible_venv_dir_names_Reversed == <<".venv", "venv">>

possible_venv_dir_names == <<"venv", ".venv">>

\* .iter().map(|name| runtime_path.join(name)).find(|path| path.exists())
RECURSIVE FindExisting(_, _, _)
FindExisting(f, dir, names) ==
    IF names = << >> THEN Err
    ELSE IF exists(f, join(dir, <<Head(names)>>)) THEN Ok(join(dir, <<Head(names)>>))
    ELSE FindExisting(f, dir, Tail(names))

\* what a successful `venv <path>` invocation leaves on disk
CreateVenv(f, p) == f \cup {p, get_python_exec_path(p)}

\* a push that is not guarded by the clean flag
PushIfClean_Always(clean, files, p) == Append(files, p)

\* if clean { files_to_clean.push(path) }
PushIfClean(clean, files, p) == IF clean THEN Append(files, p) ELSE files

----------------------------------------------------------------------------
(* Dependency Installer *)

pyproject_toml == <<"pyproject.toml">>
requirements_txt == <<"requirements.txt">>
uv_lock == <<"uv.lock">>

\* an installer whose exit status is not looked at
InstallFailed_Ignored(ok) == FALSE

\* !cmd.status.success()
InstallFailed(ok) == ~ok

----------------------------------------------------------------------------
(* Environment Variable Composer *)

PYTHONPATH == <<"PYTHONPATH">>

\* env::var("PYTHONPATH").unwrap_or_default()
env_var_or_default(env, k) == IF HasKey(env, k) THEN Get(env, k) ELSE << >>

append_pwd_to_pythonpath(env, f, current_dir) ==
    IF ~exists(f, current_dir) THEN EmptyMap
    ELSE LET path == env_var_or_default(env, PYTHONPATH)
             dir == to_string_lossy(current_dir)
         IN IF ~Contains(path, dir)
            THEN {<<PYTHONPATH, (IF path # << >> THEN path \o <<":">> ELSE path) \o dir>>}
            ELSE EmptyMap

\* the key and the value of an override that holds an '=' at pos
OverrideKey(env_var, pos) == SubSeq(env_var, 1, pos - 1)
OverrideValue(env_var, pos) == SubSeq(env_var, pos + 1, Len(env_var))

\* the loop over additional_env_from_args
RECURSIVE InsertOverrides(_, _)
InsertOverrides(m, list) ==
    IF list = << >> THEN m
    ELSE LET env_var == Head(list)
             pos == find(env_var)
         IN InsertOverrides(
                IF pos # 0
                THEN Insert(m, OverrideKey(env_var, pos), OverrideValue(env_var, pos))
                ELSE m,
                Tail(list))

\* py_executer_lib::set_additional_env_var: the returned map
set_additional_env_var(env, f, current_dir, additional_env_from_args) ==
    InsertOverrides(Extend(EmptyMap, append_pwd_to_pythonpath(env, f, current_dir)),
                    additional_env_from_args)

\* utils::set_additional_env_var: the returned map
utils_set_additional_env_var(env, f, current_dir, additional_env_from_args) ==
    InsertOverrides(Extend(EmptyMap, append_pwd_to_pythonpath(env, f, current_dir)),
                    additional_env_from_args)

HasMalformed(list) == \E i \in 1..Len(list) : find(list[i]) = 0
HasWellFormed(list) == \E i \in 1..Len(list) : find(list[i]) # 0

\* what py_executer_lib::set_additional_env_var prints
set_additional_env_var_prints(f, current_dir, list, quiet) ==
    (IF ~exists(f, current_dir) THEN {"err_current_dir"} ELSE {})
    \cup (IF HasWellFormed(list) /\ ~quiet THEN {"info_setting_env"} ELSE {})
    \cup (IF HasMalformed(list) /\ ~quiet THEN {"warn_malformed_env"} ELSE {})

\* what utils::set_additional_env_var prints: the warning is not guarded by quiet
utils_set_additional_env_var_prints(f, current_dir, list, quiet) ==
    (IF ~exists(f, current_dir) THEN {"err_current_dir"} ELSE {})
    \cup (IF HasWellFormed(list) /\ ~quiet THEN {"info_setting_env"} ELSE {})
    \cup (IF HasMalformed(list) THEN {"warn_malformed_env"} ELSE {})

\* dotenv::from_path(p).ok(): a missing file is ignored; a variable of the file is
\* set only if the process environment does not define it yet
dotenv_from_path(env, f, p, content) ==
    IF ~exists(f, p) THEN env
    ELSE env \cup {kv \in content : ~HasKey(env, kv[1])}

\* the two envs calls in the other order
ChildEnv_Swapped(env, additional) == Extend(Extend(additional, env), env)

\* Command::envs(env::vars()).envs(additional_env)
ChildEnv(env, additional) == Extend(Extend(env, env), additional)

----------------------------------------------------------------------------
(* Process Supervisor *)

\* ExitStatus::success
success(status) == status = 0

\* a mapping that hands the child's own exit code on
ExitCodeOf_Raw(wait_ok, status) == IF wait_ok THEN status ELSE 1

\* the match on child.wait(): ExitCode::SUCCESS is 0, ExitCode::FAILURE is 1
ExitCodeOf(wait_ok, status) ==
    IF wait_ok THEN (IF success(status) THEN 0 ELSE 1) ELSE 1

----------------------------------------------------------------------------
(* Messages *)

FatalMessages ==
    {"err_script", "err_project", "err_no_python", "err_sync", "err_pip",
     "err_spawn", "err_wait", "err_current_dir", "err_uv_stderr"}
InfoMessages ==
    {"banner", "info_using_uv", "hint_install_uv", "info_using_venv", "info_setting_env"}
WarningMessages ==
    {"warn_no_uv", "warn_validate_venv", "warn_no_venv_found", "warn_no_deps",
     "warn_env_file_missing", "warn_malformed_env", "warn_trying_venv",
     "warn_clean_inactive", "warn_requirements_existing_venv", "warn_trying_uv",
     "warn_requirements_missing"}

UnlessQuiet(quiet, msgs) == IF quiet THEN {} ELSE msgs
When(cond, msgs) == IF cond THEN msgs ELSE {}


----------------------------------------------------------------------------
(* Cleanup Manager *)

Range(seq) == {seq[i] : i \in 1..Len(seq)}

\* std::fs::remove_dir_all for a directory, std::fs::remove_file otherwise
RemovePath(f, p) ==
    IF is_dir(f, p) THEN {q \in f : ~IsPrefix(p, q)} ELSE f \ {p}

\* for path in files_to_clean.iter() { ... }: a removal in `failing` returns Err,
\* which the loop ignores
RECURSIVE RemoveEach(_, _, _)
RemoveEach(f, paths, failing) ==
    IF paths = << >> THEN f
    ELSE RemoveEach(IF Head(paths) \in failing THEN f ELSE RemovePath(f, Head(paths)),
                    Tail(paths), failing)

----------------------------------------------------------------------------
(* Initial states *)

VenvKinds == {"none", "broken", "valid"}
VenvTree(dir, kind) ==
    CASE kind = "none" -> {}
      [] kind = "broken" -> {dir}
      [] kind = "valid" -> {dir, get_python_exec_path(dir)}

DefaultVenvArg == <<".venv">>
CustomVenvDir == <<"/", "opt", "env">>
DotEnvArg == <<".env">>

\* the --venv argument and the state of the custom directory it may name
Candidates ==
    {[venv |-> DefaultVenvArg, kind |-> "none"],
     [venv |-> CustomVenvDir, kind |-> "none"],
     [venv |-> CustomVenvDir, kind |-> "valid"]}

\* the script argument and whether test.py is on disk
ScriptCases ==
    {[script |-> <<"test.py">>, present |-> TRUE],
     [script |-> <<"test.py">>, present |-> FALSE],
     [script |-> ScriptFile, present |-> TRUE],
     [script |-> << >>, present |-> TRUE]}

MakeFs(present, kvenv, kdotvenv, cand, files) ==
    {ProjectDir}
    \cup (IF present THEN {ScriptFile} ELSE {})
    \cup VenvTree(join(ProjectDir, <<"venv">>), kvenv)
    \cup VenvTree(join(ProjectDir, <<".venv">>), kdotvenv)
    \cup VenvTree(CustomVenvDir, cand.kind)
    \cup {join(ProjectDir, n) : n \in files}

\* the override list of the spec's scenario: ["A=1", "B", "C=3=4"]
ExampleOverrides == << <<"A", "=", "1">>, <<"B">>, <<"C", "=", "3", "=", "4">> >>

RunInherited == {<<PYTHONPATH, <<"/", "lib">>>>, << <<"A">>, <<"i">> >>}
RunDotenv == {<< <<"A">>, <<"d">> >>, << <<"D">>, <<"d">> >>}

NoChild == [state |-> "none", env |-> EmptyMap, status |-> -1, observed |-> FALSE]

\* the two output channels of a child (Stdio::piped stdout and stderr)
Channels == {"stdout", "stderr"}

\* stream_output has not been entered
NoIo == [main |-> "none",
         written |-> [ch \in Channels |-> << >>],
         pipe |-> [ch \in Channels |-> << >>],
         open |-> [ch \in Channels |-> FALSE],
         reader |-> [ch \in Channels |-> "unborn"],
         cur |-> [ch \in Channels |-> << >>],
         parent |-> [ch \in Channels |-> << >>],
         threads |-> 0,
         plan |-> [ch \in Channels |-> 0]]

StartState(e, a, h, f, inh, content) ==
    /\ entry = e
    /\ args = a
    /\ host = h
    /\ fs = f
    /\ fs0 = f
    /\ inherited = inh
    /\ environ = inh
    /\ env_file_content = content
    /\ pc = "start"
    /\ script_path = << >>
    /\ runtime_path = << >>
    /\ uv_path = ""
    /\ python_native_path = ""
    /\ venv = << >>
    /\ files_to_clean = << >>
    /\ additional_env = EmptyMap
    /\ printed = {}
    /\ calls = << >>
    /\ child = NoChild
    /\ result = -1
    /\ removal_attempts = {}
    /\ exit_code = -1
    /\ io = NoIo

InitMain ==
    \E sc \in ScriptCases, cand \in Candidates, kv \in VenvKinds, kd \in VenvKinds,
       files \in SUBSET {pyproject_toml, requirements_txt, DotEnvArg},
       q \in BOOLEAN, c \in BOOLEAN, h \in [uv : BOOLEAN, python3 : BOOLEAN] :
        StartState("main",
                   [script |-> sc.script, project |-> ProjectDir, venv |-> cand.venv,
                    env |-> ExampleOverrides, env_file |-> <<DotEnvArg>>,
                    quiet |-> q, clean |-> c],
                   h, MakeFs(sc.present, kv, kd, cand, files), RunInherited, RunDotenv)

InitPython ==
    \E sc \in ScriptCases, cand \in Candidates, kv \in VenvKinds, kd \in VenvKinds,
       files \in SUBSET {pyproject_toml, requirements_txt, DotEnvArg},
       q \in BOOLEAN, c \in BOOLEAN, h \in [uv : BOOLEAN, python3 : BOOLEAN],
       proj \in {ProjectDir, <<"/", "gone">>}, ef \in {<< >>, <<DotEnvArg>>} :
        StartState("python",
                   [script |-> sc.script, project |-> proj, venv |-> cand.venv,
                    env |-> ExampleOverrides, env_file |-> ef,
                    quiet |-> q, clean |-> c],
                   h, MakeFs(sc.present, kv, kd, cand, files), RunInherited, RunDotenv)

----------------------------------------------------------------------------
(* The run of main() and of python() *)

quiet == args.quiet
clean == args.clean

Exit(code, msgs) ==
    /\ pc' = "done"
    /\ exit_code' = code
    /\ printed' = printed \cup msgs

\* main.rs 107-121, python.rs 22-36
ValidateScript ==
    /\ pc = "start"
    /\ entry \in {"main", "python"}
    /\ LET banner == UnlessQuiet(quiet, {"banner"})
           r == validate_to_absolute_path(fs, args.script)
           proj == canonicalize(fs, args.project)
       IN IF ~r.ok
          THEN /\ Exit(1, banner \cup {"err_script"})
               /\ UNCHANGED <<script_path, runtime_path>>
          ELSE IF entry = "python" /\ ~proj.ok
          THEN /\ Exit(1, banner \cup {"err_project"})
               /\ script_path' = r.val
               /\ UNCHANGED runtime_path
          ELSE /\ script_path' = r.val
               /\ runtime_path' = (IF entry = "main" THEN cwd ELSE proj.val)
               /\ printed' = printed \cup banner
               /\ pc' = "locate"
               /\ UNCHANGED exit_code
    /\ UNCHANGED <<io, entry, args, host, fs, fs0, inherited, environ, env_file_content,
                   uv_path, python_native_path, venv, files_to_clean, additional_env,
                   calls, child, result, removal_attempts>>

\* main.rs 123-166, python.rs 38-59
LocateTools ==
    /\ pc = "locate"
    /\ LET uv == uv_path_or_empty(host)
           py == get_python_native_path(host, uv)
           msgs == When(~get_uv_path(host).ok, {"hint_install_uv"})
                   \cup UnlessQuiet(quiet, IF uv # "" THEN {"info_using_uv"}
                                           ELSE {"warn_no_uv"})
       IN /\ uv_path' = uv
          /\ python_native_path' = py
          /\ calls' = calls \o LocatorCalls(host)
          /\ IF NoExecutable(py, uv)
             THEN Exit(1, msgs \cup {"err_no_python"})
             ELSE /\ pc' = "resolve"
                  /\ printed' = printed \cup msgs
                  /\ UNCHANGED exit_code
    /\ UNCHANGED <<io, entry, args, host, fs, fs0, inherited, environ, env_file_content,
                   script_path, runtime_path, venv, files_to_clean, additional_env,
                   child, result, removal_attempts>>

\* main.rs 172-213 (main), lib/path.rs 93-146 get_venv_path (python)
ResolveVenv ==
    /\ pc = "resolve"
    /\ LET v == validate_venv(fs, args.venv)
           found == FindExisting(fs, runtime_path, possible_venv_dir_names)
           new_venv_path == join(runtime_path, <<".venv">>)
           warn_validate == IF entry = "main" THEN {"warn_validate_venv"}
                            ELSE UnlessQuiet(quiet, {"warn_validate_venv"})
       IN IF v.ok
          THEN /\ venv' = v.val
               /\ UNCHANGED <<fs, files_to_clean, calls, printed>>
          ELSE IF found.ok
          THEN /\ venv' = found.val
               /\ printed' = printed \cup warn_validate
               /\ UNCHANGED <<fs, files_to_clean, calls>>
          ELSE \E ok \in BOOLEAN :
               /\ calls' = Append(calls, [cmd |-> "venv", ok |-> ok])
               /\ fs' = (IF ok THEN CreateVenv(fs, new_venv_path) ELSE fs)
               /\ files_to_clean' = PushIfClean(clean, files_to_clean, new_venv_path)
               /\ venv' = new_venv_path
               /\ printed' = printed \cup warn_validate
                                     \cup UnlessQuiet(quiet, {"warn_no_venv_found"})
    /\ pc' = "install"
    /\ UNCHANGED <<io, entry, args, host, fs0, inherited, environ, env_file_content,
                   script_path, runtime_path, uv_path, python_native_path,
                   additional_env, child, result, removal_attempts, exit_code>>

\* main.rs 217-278, python.rs 76-148
PrepareDependencies ==
    /\ pc = "install"
    /\ \E sync_ok \in BOOLEAN, pip_ok \in BOOLEAN :
       LET has_project == exists(fs, join(runtime_path, pyproject_toml))
           has_requirements == exists(fs, join(runtime_path, requirements_txt))
           do_sync == uv_path # "" /\ has_project
           sync_failed == do_sync /\ InstallFailed(sync_ok)
           do_pip == has_requirements /\ ~sync_failed
           pip_failed == do_pip /\ InstallFailed(pip_ok)
           warn == When(entry = "python" /\ uv_path # ""
                        /\ ~has_project /\ ~has_requirements, {"warn_no_deps"})
       IN /\ calls' = calls
                      \o (IF do_sync THEN <<[cmd |-> "sync", ok |-> sync_ok]>> ELSE << >>)
                      \o (IF do_pip THEN <<[cmd |-> "pip", ok |-> pip_ok]>> ELSE << >>)
          /\ IF sync_failed THEN Exit(1, {"err_sync"})
             ELSE IF pip_failed THEN Exit(1, {"err_pip"})
             ELSE /\ pc' = "compose"
                  /\ printed' = printed \cup warn
                  /\ UNCHANGED exit_code
    /\ UNCHANGED <<io, entry, args, host, fs, fs0, inherited, environ, env_file_content,
                   script_path, runtime_path, uv_path, python_native_path, venv,
                   files_to_clean, additional_env, child, result, removal_attempts>>

\* the dotenv file that is loaded: main.rs 282, python.rs 155-172
EnvFilePath ==
    IF args.env_file = << >> THEN join(runtime_path, DotEnvArg) ELSE args.env_file[1]

\* main.rs 280-284, python.rs 150-179
ComposeEnv ==
    /\ pc = "compose"
    /\ LET loaded == dotenv_from_path(environ, fs, EnvFilePath, env_file_content)
           using == IF entry = "main" THEN {"info_using_venv"}
                    ELSE UnlessQuiet(quiet, {"info_using_venv", "banner"})
           missing == When(entry = "python" /\ args.env_file # << >>
                           /\ ~exists(fs, EnvFilePath), {"warn_env_file_missing"})
       IN /\ environ' = loaded
          /\ additional_env' = set_additional_env_var(loaded, fs, runtime_path, args.env)
          /\ printed' = printed \cup using \cup missing
                \cup set_additional_env_var_prints(fs, runtime_path, args.env, quiet)
    /\ pc' = "spawn"
    /\ UNCHANGED <<io, entry, args, host, fs, fs0, inherited, env_file_content, script_path,
                   runtime_path, uv_path, python_native_path, venv, files_to_clean,
                   calls, child, result, removal_attempts, exit_code>>

\* main.rs 286-310, python.rs 181-206
SpawnTarget ==
    /\ pc = "spawn"
    /\ \E ok \in BOOLEAN :
       /\ calls' = Append(calls, [cmd |-> "target", ok |-> ok])
       /\ IF ok
          THEN /\ child' = [state |-> "running", env |-> ChildEnv(environ, additional_env),
                            status |-> -1, observed |-> FALSE]
               /\ pc' = "stream"
               /\ printed' = printed
                     \cup When(entry = "main", UnlessQuiet(quiet, {"banner"}))
               /\ UNCHANGED exit_code
          ELSE /\ Exit(1, {"err_spawn"})
               /\ UNCHANGED child
    /\ UNCHANGED <<io, entry, args, host, fs, fs0, inherited, environ, env_file_content,
                   script_path, runtime_path, uv_path, python_native_path, venv,
                   files_to_clean, additional_env, result, removal_attempts>>

\* the target script ends with some exit code
ChildExits ==
    /\ pc = "stream"
    /\ child.state = "running"
    /\ \E code \in 0..MaxExitCode : child' = [child EXCEPT !.state = "exited", !.status = code]
    /\ UNCHANGED <<io, entry, args, host, fs, fs0, inherited, environ, env_file_content, pc,
                   script_path, runtime_path, uv_path, python_native_path, venv,
                   files_to_clean, additional_env, printed, calls, result,
                   removal_attempts, exit_code>>

\* lib/cmd.rs 40-55 and main.rs 73-88 stream_output; python.rs 207, 223-235
WaitChild ==
    /\ pc = "stream"
    /\ child.state = "exited"
    /\ \E wait_ok \in BOOLEAN :
       /\ child' = [child EXCEPT !.state = "reaped", !.observed = wait_ok]
       /\ result' = ExitCodeOf(wait_ok, child.status)
       /\ printed' = printed \cup When(~wait_ok, {"err_wait"})
    /\ pc' = "cleanup"
    /\ UNCHANGED <<io, entry, args, host, fs, fs0, inherited, environ, env_file_content,
                   script_path, runtime_path, uv_path, python_native_path, venv,
                   files_to_clean, additional_env, calls, removal_attempts, exit_code>>

\* a cleanup that does not wait for the Supervisor: it runs while the child runs
Cleanup_Early ==
    /\ pc = "stream"
    /\ child.state = "running"
    /\ removal_attempts = {}
    /\ clean
    /\ files_to_clean # << >>
    /\ fs' = RemoveEach(fs, files_to_clean, {})
    /\ removal_attempts' = Range(files_to_clean)
    /\ UNCHANGED <<io, entry, args, host, fs0, inherited, environ, env_file_content, pc,
                   script_path, runtime_path, uv_path, python_native_path, venv,
                   files_to_clean, additional_env, printed, calls, child, result,
                   exit_code>>

\* main.rs 314-327, python.rs 209-221
Cleanup ==
    /\ pc = "cleanup"
    /\ \E failing \in SUBSET Range(files_to_clean) :
       /\ fs' = (IF clean THEN RemoveEach(fs, files_to_clean, failing) ELSE fs)
       /\ removal_attempts' = (IF clean THEN Range(files_to_clean) ELSE {})
    /\ pc' = "done"
    /\ exit_code' = result
    /\ UNCHANGED <<io, entry, args, host, fs0, inherited, environ, env_file_content,
                   script_path, runtime_path, uv_path, python_native_path, venv,
                   files_to_clean, additional_env, printed, calls, child, result>>

----------------------------------------------------------------------------
(* The uv-managed resolver: lib/uv.rs venv() and use_uv_venv() *)

InitVenv ==
    \E cand \in Candidates, kv \in VenvKinds, kd \in VenvKinds,
       files \in SUBSET {pyproject_toml, requirements_txt, uv_lock},
       q \in BOOLEAN, c \in BOOLEAN, uv \in BOOLEAN :
        StartState("venv",
                   [script |-> <<"test.py">>, project |-> ProjectDir, venv |-> cand.venv,
                    env |-> << >>, env_file |-> <<DotEnvArg>>, quiet |-> q, clean |-> c],
                   [uv |-> uv, python3 |-> TRUE],
                   MakeFs(TRUE, kv, kd, cand, files), RunInherited, RunDotenv)

\* the warnings of venv() when it settles on a directory that exists
ExistingVenvWarnings ==
    UnlessQuiet(quiet,
        When(clean, {"warn_clean_inactive"})
        \cup When(exists(fs, join(cwd, requirements_txt)),
                  {"warn_requirements_existing_venv"}))

\* lib/uv.rs 168-226 venv(), up to the call of use_uv_venv
UvVenv ==
    /\ pc = "start"
    /\ entry = "venv"
    /\ LET arg == args.venv
           venv_path_alternate == join(cwd, <<"venv">>)
       IN IF ~exists(fs, arg)
          THEN IF arg = DefaultVenvArg /\ exists(fs, venv_path_alternate)
               THEN /\ venv' = venv_path_alternate
                    /\ pc' = "returned"
                    /\ printed' = printed \cup UnlessQuiet(quiet, {"warn_trying_venv"})
                                          \cup ExistingVenvWarnings
               ELSE /\ pc' = "uv_init"
                    /\ printed' = printed
                          \cup UnlessQuiet(quiet, When(arg = DefaultVenvArg, {"warn_trying_venv"})
                                                  \cup {"warn_trying_uv"})
                    /\ UNCHANGED venv
          ELSE /\ venv' = canonicalize(fs, arg).val
               /\ pc' = "returned"
               /\ printed' = printed \cup ExistingVenvWarnings
    /\ UNCHANGED <<io, entry, args, host, fs, fs0, inherited, environ, env_file_content,
                   script_path, runtime_path, uv_path, python_native_path,
                   files_to_clean, additional_env, calls, child, result,
                   removal_attempts, exit_code>>

\* the outcomes of `uv init --bare`: it refuses a project that has a pyproject.toml
InitOutcomes(f) ==
    IF exists(f, join(cwd, pyproject_toml)) THEN {"already", "fail"} ELSE {"ok", "fail"}

\* lib/uv.rs 39-62 prepare_uv_project, called at use_uv_venv 136-138
PrepareUvProject ==
    /\ pc = "uv_init"
    /\ IF ~get_uv_path(host).ok
       THEN /\ pc' = "failed"
            /\ calls' = Append(calls, [cmd |-> "which uv", ok |-> FALSE])
            /\ printed' = printed \cup {"hint_install_uv"}
            /\ UNCHANGED fs
       ELSE \E outcome \in InitOutcomes(fs) :
            /\ calls' = calls \o <<[cmd |-> "which uv", ok |-> TRUE],
                                   [cmd |-> "init", ok |-> outcome = "ok"]>>
            /\ fs' = (IF outcome = "ok" THEN fs \cup {join(cwd, pyproject_toml)} ELSE fs)
            /\ pc' = (IF outcome = "fail" THEN "failed" ELSE "uv_venv")
            /\ printed' = printed \cup When(outcome = "fail", {"err_uv_stderr"})
    /\ UNCHANGED <<io, entry, args, host, fs0, inherited, environ, env_file_content,
                   script_path, runtime_path, uv_path, python_native_path, venv,
                   files_to_clean, additional_env, child, result, removal_attempts,
                   exit_code>>

\* lib/uv.rs 139-142, with prepare_venv 64-85
PrepareVenv ==
    /\ pc = "uv_venv"
    /\ LET venv_path == join(cwd, <<".venv">>)
       IN IF ~exists(fs, venv_path)
          THEN \E ok \in BOOLEAN :
               /\ calls' = calls \o <<[cmd |-> "which uv", ok |-> TRUE],
                                      [cmd |-> "venv", ok |-> ok]>>
               /\ fs' = (IF ok THEN CreateVenv(fs, venv_path) ELSE fs)
               /\ pc' = (IF ok THEN "uv_add" ELSE "failed")
          ELSE /\ pc' = "uv_add"
               /\ UNCHANGED <<fs, calls>>
    /\ UNCHANGED <<io, entry, args, host, fs0, inherited, environ, env_file_content,
                   script_path, runtime_path, uv_path, python_native_path, venv,
                   files_to_clean, additional_env, printed, child, result,
                   removal_attempts, exit_code>>

\* lib/uv.rs 143, with install_requirements 87-129; a successful `uv add` may
\* write the lock file
InstallRequirements ==
    /\ pc = "uv_add"
    /\ IF ~exists(fs, join(cwd, requirements_txt))
       THEN /\ printed' = printed \cup UnlessQuiet(quiet, {"warn_requirements_missing"})
            /\ pc' = "uv_collect"
            /\ UNCHANGED <<fs, calls>>
       ELSE \E ok \in BOOLEAN, writes_lock \in BOOLEAN :
            /\ calls' = calls \o <<[cmd |-> "which uv", ok |-> TRUE],
                                   [cmd |-> "add", ok |-> ok]>>
            /\ fs' = (IF ok /\ writes_lock THEN fs \cup {join(cwd, uv_lock)} ELSE fs)
            /\ pc' = (IF ok THEN "uv_collect" ELSE "failed")
            /\ UNCHANGED printed
    /\ UNCHANGED <<io, entry, args, host, fs0, inherited, environ, env_file_content,
                   script_path, runtime_path, uv_path, python_native_path, venv,
                   files_to_clean, additional_env, child, result, removal_attempts,
                   exit_code>>

\* if !path.exists() { files_to_clean.push(path) }
PushIfMissing(f, files, p) == IF ~exists(f, p) THEN Append(files, p) ELSE files

\* lib/uv.rs 145-165: the end of use_uv_venv
CollectFilesToClean ==
    /\ pc = "uv_collect"
    /\ files_to_clean' =
         (IF clean
          THEN PushIfMissing(fs,
                 PushIfMissing(fs,
                   PushIfMissing(fs, files_to_clean, join(cwd, <<".venv">>)),
                   join(cwd, pyproject_toml)),
                 join(cwd, uv_lock))
          ELSE files_to_clean)
    /\ venv' = join(cwd, <<".venv">>)
    /\ pc' = "returned"
    /\ UNCHANGED <<io, entry, args, host, fs, fs0, inherited, environ, env_file_content,
                   script_path, runtime_path, uv_path, python_native_path,
                   additional_env, printed, calls, child, result, removal_attempts,
                   exit_code>>

----------------------------------------------------------------------------
(* The uv pass-through: src/uv.rs uv() *)

\* exit code of a Rust process ended by a panic
PanicExitCode == 101

InitUv ==
    \E h \in [uv : BOOLEAN, python3 : BOOLEAN], q \in BOOLEAN, c \in BOOLEAN :
        StartState("uv",
                   [script |-> << >>, project |-> ProjectDir, venv |-> DefaultVenvArg,
                    env |-> << >>, env_file |-> << >>, quiet |-> q, clean |-> c],
                   h, MakeFs(FALSE, "none", "none", [venv |-> DefaultVenvArg, kind |-> "none"], {}),
                   RunInherited, RunDotenv)

\* uv.rs 26-32: the ExitCode returned for the status of the uv process
uv_exit_code(status) == IF success(status) THEN 1 ELSE 0

\* uv.rs 19-38
UvPassThrough ==
    /\ entry = "uv"
    /\ pc = "start"
    /\ IF ~get_uv_path(host).ok
       THEN \* get_uv_path().unwrap() panics
            /\ calls' = calls \o <<[cmd |-> "which uv", ok |-> host.uv]>>
            /\ Exit(PanicExitCode, {"hint_install_uv"})
            /\ UNCHANGED <<child, uv_path>>
       ELSE /\ uv_path' = get_uv_path(host).val
            /\ \E spawned \in BOOLEAN, status \in 0..MaxExitCode :
               /\ calls' = calls \o <<[cmd |-> "which uv", ok |-> host.uv]>>
                                 \o << [cmd |-> "uv", ok |-> spawned] >>
               /\ IF spawned
                  THEN /\ child' = [state |-> "reaped", env |-> environ,
                                    status |-> status, observed |-> TRUE]
                       /\ Exit(uv_exit_code(status), {})
                  ELSE /\ Exit(1, {"err_uv"})
                       /\ UNCHANGED child
    /\ UNCHANGED <<io, entry, args, host, fs, fs0, inherited, environ, env_file_content,
                   script_path, runtime_path, python_native_path, venv, files_to_clean,
                   additional_env, result, removal_attempts>>

----------------------------------------------------------------------------
Init == InitMain \/ InitPython \/ InitVenv \/ InitUv

Next ==
    \/ ValidateScript
    \/ LocateTools
    \/ ResolveVenv
    \/ PrepareDependencies
    \/ ComposeEnv
    \/ SpawnTarget
    \/ ChildExits
    \/ WaitChild
    \/ Cleanup
    \/ UvVenv
    \/ PrepareUvProject
    \/ PrepareVenv
    \/ InstallRequirements
    \/ CollectFilesToClean
    \/ UvPassThrough

Spec == Init /\ [][Next]_vars


----------------------------------------------------------------------------
(* The Composer on its own inputs: the same run, started with a valid .venv,   *)
(* over many override lists, inherited environments and dotenv files; and      *)
(* utils::set_additional_env_var called on its own (entry "utils").            *)

OverrideTokens == {"A", "="}
OverrideStrings == SeqsUpTo(OverrideTokens, MaxStrLen)
OverrideLists == SeqsUpTo(OverrideStrings, MaxOverrides) \cup {ExampleOverrides}

CliStrings == {<<"A", "=", "c">>, <<"PYTHONPATH", "=", "c">>, <<"B">>}
CliLists == SeqsUpTo(CliStrings, MaxOverrides)

InheritedEnvs ==
    {a \cup pp : a \in {{}, {<< <<"A">>, <<"i">> >>}},
                 pp \in {{}, {<<PYTHONPATH, <<"/", "lib">>>>},
                         {<<PYTHONPATH, <<"/", "proj">>>>},
                         {<<PYTHONPATH, <<"/", "proj", "x">>>>}}}
DotenvContents ==
    {a \cup pp : a \in {{}, {<< <<"A">>, <<"d">> >>}},
                 pp \in {{}, {<<PYTHONPATH, <<"/", "d">>>>}}}
\* a dotenv file on disk with its content, or no file
DotenvFiles ==
    {[files |-> {DotEnvArg}, content |-> c] : c \in DotenvContents}
    \cup {[files |-> {}, content |-> EmptyMap]}

ComposeArgs(ov, ef, q) ==
    [script |-> <<"test.py">>, project |-> ProjectDir, venv |-> DefaultVenvArg,
     env |-> ov, env_file |-> ef, quiet |-> q, clean |-> FALSE]
ComposeFs(files) == MakeFs(TRUE, "none", "valid", [venv |-> DefaultVenvArg, kind |-> "none"], files)
ComposeHost == [uv |-> TRUE, python3 |-> TRUE]

InitOverrides ==
    \E e \in {"main", "python", "utils"}, ov \in OverrideLists, q \in BOOLEAN :
        StartState(e, ComposeArgs(ov, <<DotEnvArg>>, q), ComposeHost, ComposeFs({}),
                   RunInherited, EmptyMap)

InitSources ==
    \E e \in {[entry |-> "main", env_file |-> <<DotEnvArg>>],
              [entry |-> "python", env_file |-> <<DotEnvArg>>],
              [entry |-> "python", env_file |-> << >>]},
       ov \in CliLists, inh \in InheritedEnvs, d \in DotenvFiles, q \in BOOLEAN :
        StartState(e.entry, ComposeArgs(ov, e.env_file, q), ComposeHost,
                   ComposeFs(d.files), inh, d.content)

InitCompose == InitOverrides \/ InitSources

\* lib/utils.rs 28-54 set_additional_env_var, as a call of its own
UtilsSetAdditionalEnvVar ==
    /\ pc = "start"
    /\ entry = "utils"
    /\ additional_env' = utils_set_additional_env_var(environ, fs, cwd, args.env)
    /\ printed' = printed \cup utils_set_additional_env_var_prints(fs, cwd, args.env, quiet)
    /\ pc' = "returned"
    /\ UNCHANGED <<io, entry, args, host, fs, fs0, inherited, environ, env_file_content,
                   script_path, runtime_path, uv_path, python_native_path, venv,
                   files_to_clean, calls, child, result, removal_attempts, exit_code>>

NextCompose ==
    \/ ValidateScript
    \/ LocateTools
    \/ ResolveVenv
    \/ PrepareDependencies
    \/ ComposeEnv
    \/ SpawnTarget
    \/ UtilsSetAdditionalEnvVar

SpecCompose == InitCompose /\ [][NextCompose]_vars

----------------------------------------------------------------------------
(* Properties *)

Cmds == {calls[i].cmd : i \in DOMAIN calls}
FailedCall(c) == \E i \in DOMAIN calls : calls[i].cmd = c /\ ~calls[i].ok
IsRun == entry \in {"main", "python"}
Aborted == pc = "done" /\ exit_code = 1 /\ child.state = "none"

\* C1: a run that reached the Supervisor ends with exit code 0 exactly when the
\* child's exit status was observed and is 0, and with exit code 1 otherwise.
Theorem_C1 ==
    (IsRun /\ pc = "done" /\ child.state # "none") =>
        /\ exit_code = 0 <=> (child.observed /\ child.status = 0)
        /\ ~(child.observed /\ child.status = 0) => exit_code = 1

Witness_C1 ==
    /\ IsRun
    /\ pc = "done"
    /\ child.state = "reaped"
    /\ child.observed
    /\ child.status > 1
    /\ exit_code = 1

\* C2: when neither uv nor python3 is found, the run has aborted with exit code 1
\* and has started no provisioning, install or target subprocess.
Theorem_C2 ==
    (IsRun /\ FailedCall("which uv") /\ FailedCall("which python3")) =>
        /\ Aborted
        /\ "err_no_python" \in printed
        /\ Cmds \cap {"venv", "sync", "pip", "target"} = {}
        /\ fs = fs0
        /\ files_to_clean = << >>

Witness_C2 ==
    /\ IsRun
    /\ FailedCall("which uv")
    /\ FailedCall("which python3")
    /\ pc = "done"

\* C3: a dependency-install invocation that exits non-zero is the last subprocess
\* of the run, which has aborted with exit code 1 without spawning the target;
\* each install invocation is started at most once.
Theorem_C3 ==
    IsRun =>
        /\ \A i \in DOMAIN calls :
              (calls[i].cmd \in {"sync", "pip"} /\ ~calls[i].ok) =>
                  /\ Aborted
                  /\ i = Len(calls)
                  /\ "target" \notin Cmds
        /\ \A c \in {"sync", "pip"} :
              Cardinality({i \in DOMAIN calls : calls[i].cmd = c}) <= 1

Witness_C3 ==
    /\ IsRun
    /\ FailedCall("pip")
    /\ ~FailedCall("sync")
    /\ "sync" \in Cmds
    /\ pc = "done"

\* C4: when the `venv` invocation that provisions the new .venv exits non-zero,
\* the run has aborted (exit code 1 for main and python, Err for the uv resolver)
\* and no install or target subprocess was started.
Counterexample_C4 ==
    FailedCall("venv") =>
        /\ IF IsRun THEN Aborted ELSE pc = "failed"
        /\ Cmds \cap {"sync", "pip", "add", "target"} = {}

\* the script path names a file that exists: decided on the disk, not by the code
ScriptOnDisk ==
    /\ args.script # << >>
    /\ (IF args.script[1] = "/" THEN args.script ELSE cwd \o args.script) \in fs0
ScriptAbsolute == IF args.script[1] = "/" THEN args.script ELSE cwd \o args.script

\* C5: validate_to_absolute_path is Ok with the absolute path exactly when the
\* script path exists (the empty path does not); otherwise the run has aborted
\* with exit code 1 and has started no subprocess at all.
Theorem_C5 ==
    /\ validate_to_absolute_path(fs0, args.script).ok <=> ScriptOnDisk
    /\ ScriptOnDisk => validate_to_absolute_path(fs0, args.script).val = ScriptAbsolute
    /\ (IsRun /\ pc # "start") =>
          IF ScriptOnDisk
          THEN script_path = ScriptAbsolute /\ "err_script" \notin printed
          ELSE /\ Aborted
               /\ "err_script" \in printed
               /\ calls = << >>
               /\ fs = fs0

Witness_C5 ==
    /\ IsRun
    /\ pc = "done"
    /\ args.script = << >>
    /\ exit_code = 1
    /\ calls = << >>

ProvisionedArtifacts ==
    {join(cwd, <<".venv">>), join(cwd, pyproject_toml), join(cwd, uv_lock)}
AfterProvisioning ==
    pc \in {"install", "compose", "spawn", "stream", "cleanup", "returned"}

\* C8: in clean mode an artifact that provisioning created and that was not there
\* before the run is in the manifest when provisioning is over, and is gone from
\* the disk when a run that reached the Supervisor has ended.
Counterexample_C8 ==
    clean =>
        \A p \in ProvisionedArtifacts :
            p \notin fs0 =>
                /\ (AfterProvisioning /\ p \in fs) => p \in Range(files_to_clean)
                /\ (pc = "done" /\ child.state = "reaped") => p \notin fs

\* C9: every path of the manifest was absent when the run started and was
\* recorded in clean mode; without clean mode the manifest is empty and no
\* removal is attempted; nothing that existed before the run is ever deleted.
Theorem_C9 ==
    /\ \A p \in Range(files_to_clean) : p \notin fs0 /\ clean
    /\ ~clean => (files_to_clean = << >> /\ removal_attempts = {})
    /\ fs0 \subseteq fs

Witness_C9 ==
    /\ clean
    /\ pc = "done"
    /\ files_to_clean # << >>
    /\ removal_attempts # {}
    /\ "venv" \in Cmds
    /\ ~FailedCall("venv")
    /\ fs = fs0

QuietCoveredMessages ==
    {"warn_validate_venv", "info_using_venv", "warn_malformed_env", "warn_no_deps",
     "warn_env_file_missing"}

\* C10: with the quiet flag the run prints none of its informational or warning
\* messages, and a run that aborts still prints its fatal error message.
Counterexample_C10 ==
    /\ quiet => printed \cap QuietCoveredMessages = {}
    /\ (IsRun /\ Aborted) => printed \cap FatalMessages # {}


----------------------------------------------------------------------------
(* Properties of the Composer, under SpecCompose *)

\* an override read on its own terms: the place of its first '=', its key, its value
HasEq(s) == \E n \in 1..Len(s) : s[n] = "="
FirstEq(s) == CHOOSE n \in 1..Len(s) : s[n] = "=" /\ \A j \in 1..(n - 1) : s[j] # "="
KeyOf(s) == SubSeq(s, 1, FirstEq(s) - 1)
ValueOf(s) == SubSeq(s, FirstEq(s) + 1, Len(s))
WithoutIndex(list, i) == SubSeq(list, 1, i - 1) \o SubSeq(list, i + 1, Len(list))

\* the map of set_additional_env_var has been returned
EnvComposed ==
    \/ IsRun /\ pc \in {"spawn", "stream"}
    \/ IsRun /\ pc = "done" /\ "target" \in Cmds
    \/ entry = "utils" /\ pc = "returned"

OverriddenLater(i) ==
    \E j \in (i + 1)..Len(args.env) :
        HasEq(args.env[j]) /\ KeyOf(args.env[j]) = KeyOf(args.env[i])

MapWithout(i) ==
    IF entry = "utils"
    THEN utils_set_additional_env_var(environ, fs, cwd, WithoutIndex(args.env, i))
    ELSE set_additional_env_var(environ, fs, runtime_path, WithoutIndex(args.env, i))

\* C6 as stated: every override with an '=' is bound in the returned map, key before
\* the first '=', value after it; an override without '=' changes nothing.
Counterexample_C6 ==
    EnvComposed =>
        \A i \in DOMAIN args.env :
            IF HasEq(args.env[i])
            THEN <<KeyOf(args.env[i]), ValueOf(args.env[i])>> \in additional_env
            ELSE additional_env = MapWithout(i)

\* C6, amended: every override with an '=' that no later override of the same key
\* follows is bound in the returned map, key before the first '=', value after it;
\* an override without '=' changes nothing; the map has no other key than
\* PYTHONPATH and the keys of the overrides with an '='.
Theorem_C6 ==
    EnvComposed =>
        /\ \A i \in DOMAIN args.env :
              IF HasEq(args.env[i])
              THEN ~OverriddenLater(i) =>
                      <<KeyOf(args.env[i]), ValueOf(args.env[i])>> \in additional_env
              ELSE additional_env = MapWithout(i)
        /\ \A kv \in additional_env :
              \/ kv[1] = PYTHONPATH
              \/ \E i \in DOMAIN args.env :
                    HasEq(args.env[i]) /\ kv = <<KeyOf(args.env[i]), ValueOf(args.env[i])>>

Witness_C6 ==
    /\ EnvComposed
    /\ args.env = ExampleOverrides
    /\ << <<"A">>, <<"1">> >> \in additional_env
    /\ << <<"C">>, <<"3", "=", "4">> >> \in additional_env
    /\ ~HasKey(additional_env, <<"B">>)

\* the four sources of the child's environment
CliDefines(k) == \E i \in DOMAIN args.env : HasEq(args.env[i]) /\ KeyOf(args.env[i]) = k
CliValue(k) ==
    LET last == CHOOSE i \in DOMAIN args.env :
                    /\ HasEq(args.env[i]) /\ KeyOf(args.env[i]) = k
                    /\ ~OverriddenLater(i)
    IN ValueOf(args.env[last])
DotenvDefines(k) == exists(fs0, EnvFilePath) /\ HasKey(env_file_content, k)
InheritedDefines(k) == HasKey(inherited, k)
InjectionDir == to_string_lossy(runtime_path)
Injected(base) == (IF base # << >> THEN base \o <<":">> ELSE << >>) \o InjectionDir

\* path-injection as the claim has it: built on the inherited value
InjectionBaseClaimed ==
    IF InheritedDefines(PYTHONPATH) THEN Get(inherited, PYTHONPATH) ELSE << >>
\* path-injection as the code has it: built on the value left by the dotenv load
InjectionBase ==
    IF InheritedDefines(PYTHONPATH) THEN Get(inherited, PYTHONPATH)
    ELSE IF DotenvDefines(PYTHONPATH) THEN Get(env_file_content, PYTHONPATH)
    ELSE << >>

SourcesOf(k, base) ==
    (IF InheritedDefines(k) THEN {"inherited"} ELSE {})
    \cup (IF k = PYTHONPATH /\ ~Contains(base, InjectionDir) THEN {"injection"} ELSE {})
    \cup (IF DotenvDefines(k) THEN {"dotenv"} ELSE {})
    \cup (IF CliDefines(k) THEN {"cli"} ELSE {})

ValueFrom(source, k, base) ==
    CASE source = "inherited" -> Get(inherited, k)
      [] source = "injection" -> Injected(base)
      [] source = "dotenv" -> Get(env_file_content, k)
      [] source = "cli" -> CliValue(k)

\* the source that wins among `sources` when `order` lists them from first to last
Latest(order, sources) ==
    order[CHOOSE i \in DOMAIN order :
              order[i] \in sources /\ \A j \in (i + 1)..Len(order) : order[j] \notin sources]

SourceNames ==
    Keys(inherited) \cup Keys(env_file_content) \cup {PYTHONPATH}
    \cup {KeyOf(args.env[i]) : i \in {j \in DOMAIN args.env : HasEq(args.env[j])}}

ClaimedOrder == <<"inherited", "injection", "dotenv", "cli">>
CodeOrder == <<"dotenv", "inherited", "injection", "cli">>

----------------------------------------------------------------------------
(* stream_output: lib/cmd.rs 19-55 and main.rs 52-88.  The child holds the    *)
(* write ends of two pipes; two reader threads relay them line by line to the *)
(* parent's stdout and stderr; the caller joins the stdout reader, then the   *)
(* stderr reader, then waits for the child.                                   *)

\* most lines the child writes on one channel
MaxLines == 2
\* lines a pipe buffers before the child's write blocks
PipeCap == 1

\* a line is its position on its channel and whether its bytes are valid UTF-8
Line(k, u) == [n |-> k, utf8 |-> u]

\* BufRead::lines(): read_line consumes the bytes up to the newline and yields
\* Err(InvalidData) when they are not valid UTF-8
lines_next(line) == IF line.utf8 THEN Ok(line) ELSE Err

\* the parent stream a reader prints on: println! (cmd.rs 29), eprintln! (cmd.rs 36)
Sink(ch) == ch
\* line.red() on the stderr reader only
Red(ch) == ch = "stderr"

InitStream ==
    /\ entry = "stream_output"
    /\ \E q \in BOOLEAN, c \in BOOLEAN :
         args = [script |-> <<ScriptFile>>, project |-> ProjectDir, venv |-> DefaultVenvArg,
                 env |-> << >>, env_file |-> <<DotEnvArg>>, quiet |-> q, clean |-> c]
    /\ host = [uv |-> FALSE, python3 |-> TRUE]
    /\ fs = ComposeFs({})
    /\ fs0 = fs
    /\ inherited = EmptyMap
    /\ environ = EmptyMap
    /\ env_file_content = EmptyMap
    /\ pc = "stream"
    /\ script_path = join(cwd, <<ScriptFile>>)
    /\ runtime_path = cwd
    /\ uv_path = ""
    /\ python_native_path = PythonExe
    /\ venv = join(cwd, DefaultVenvArg)
    /\ files_to_clean = << >>
    /\ additional_env = EmptyMap
    /\ printed = {}
    /\ calls = << [cmd |-> "target", ok |-> TRUE] >>
    /\ child = [state |-> "running", env |-> EmptyMap, status |-> -1, observed |-> FALSE]
    /\ result = -1
    /\ removal_attempts = {}
    /\ exit_code = -1
    /\ \E plan \in [Channels -> 0..MaxLines] :
         io = [NoIo EXCEPT !.main = "spawn_stdout", !.open = [ch \in Channels |-> TRUE],
                           !.plan = plan]

StreamFrame ==
    UNCHANGED <<entry, args, host, fs, fs0, inherited, environ, env_file_content,
                script_path, runtime_path, uv_path, python_native_path, venv,
                files_to_clean, additional_env, calls, removal_attempts, exit_code>>

\* the child has written all the lines its program writes on the channel
AllWritten(ch) == Len(io.written[ch]) = io.plan[ch]

\* the child writes one line on a channel; the write blocks while the pipe is full
ChildWrites(ch) ==
    /\ entry = "stream_output"
    /\ child.state = "running"
    /\ io.open[ch]
    /\ ~AllWritten(ch)
    /\ Len(io.pipe[ch]) < PipeCap
    /\ \E u \in BOOLEAN :
         LET line == Line(Len(io.written[ch]) + 1, u) IN
         io' = [io EXCEPT !.written[ch] = Append(@, line), !.pipe[ch] = Append(@, line)]
    /\ UNCHANGED <<pc, child, result, printed>>
    /\ StreamFrame

\* the child closes a channel while it keeps running
ChildCloses(ch) ==
    /\ entry = "stream_output"
    /\ child.state = "running"
    /\ io.open[ch]
    /\ AllWritten(ch)
    /\ io' = [io EXCEPT !.open[ch] = FALSE]
    /\ UNCHANGED <<pc, child, result, printed>>
    /\ StreamFrame

\* the child exits once its writes are through (a blocked write keeps it from
\* exiting): both write ends are closed
StreamChildExits ==
    /\ entry = "stream_output"
    /\ child.state = "running"
    /\ \A ch \in Channels : AllWritten(ch)
    /\ \E code \in 0..MaxExitCode : child' = [child EXCEPT !.state = "exited", !.status = code]
    /\ io' = [io EXCEPT !.open = [ch \in Channels |-> FALSE]]
    /\ UNCHANGED <<pc, result, printed>>
    /\ StreamFrame

\* cmd.rs 26-32: std::thread::spawn of the stdout reader
SpawnStdoutReader ==
    /\ entry = "stream_output"
    /\ io.main = "spawn_stdout"
    /\ io' = [io EXCEPT !.main = "spawn_stderr", !.reader["stdout"] = "next",
                        !.threads = @ + 1]
    /\ UNCHANGED <<pc, child, result, printed>>
    /\ StreamFrame

\* a stderr reader that is started only when the stdout reader has finished
SpawnStderrReader_AfterStdout ==
    /\ entry = "stream_output"
    /\ io.main = "spawn_stderr"
    /\ io.reader["stdout"] = "done"
    /\ io' = [io EXCEPT !.main = "join_stdout", !.reader["stderr"] = "next",
                        !.threads = @ + 1]
    /\ UNCHANGED <<pc, child, result, printed>>
    /\ StreamFrame

\* cmd.rs 33-39: std::thread::spawn of the stderr reader
SpawnStderrReader ==
    /\ entry = "stream_output"
    /\ io.main = "spawn_stderr"
    /\ io' = [io EXCEPT !.main = "join_stdout", !.reader["stderr"] = "next",
                        !.threads = @ + 1]
    /\ UNCHANGED <<pc, child, result, printed>>
    /\ StreamFrame

\* cmd.rs 27-28, 34-35: one step of `for line in lines`, `if let Ok(line) = line`
ReaderNext(ch) ==
    /\ entry = "stream_output"
    /\ io.reader[ch] = "next"
    /\ IF io.pipe[ch] # << >>
       THEN LET item == lines_next(Head(io.pipe[ch])) IN
            IF item.ok
            THEN io' = [io EXCEPT !.pipe[ch] = Tail(@), !.cur[ch] = <<item.val>>,
                                  !.reader[ch] = "print"]
            ELSE io' = [io EXCEPT !.pipe[ch] = Tail(@)]
       ELSE /\ ~io.open[ch]
            /\ io' = [io EXCEPT !.reader[ch] = "done"]
    /\ UNCHANGED <<pc, child, result, printed>>
    /\ StreamFrame

\* cmd.rs 29, 36: println!("{}", line) / eprintln!("{}", line.red())
ReaderPrints(ch) ==
    /\ entry = "stream_output"
    /\ io.reader[ch] = "print"
    /\ io' = [io EXCEPT !.parent[Sink(ch)] =
                            Append(@, [line |-> Head(io.cur[ch]), red |-> Red(ch)]),
                        !.cur[ch] = << >>,
                        !.reader[ch] = "next"]
    /\ UNCHANGED <<pc, child, result, printed>>
    /\ StreamFrame

\* cmd.rs 40: stdout_handle.join()
JoinStdout ==
    /\ entry = "stream_output"
    /\ io.main = "join_stdout"
    /\ io.reader["stdout"] = "done"
    /\ io' = [io EXCEPT !.main = "join_stderr"]
    /\ UNCHANGED <<pc, child, result, printed>>
    /\ StreamFrame

\* a join that does not wait for the stderr reader
JoinStderr_NoWait ==
    /\ entry = "stream_output"
    /\ io.main = "join_stderr"
    /\ io' = [io EXCEPT !.main = "wait"]
    /\ UNCHANGED <<pc, child, result, printed>>
    /\ StreamFrame

\* cmd.rs 41: stderr_handle.join()
JoinStderr ==
    /\ entry = "stream_output"
    /\ io.main = "join_stderr"
    /\ io.reader["stderr"] = "done"
    /\ io' = [io EXCEPT !.main = "wait"]
    /\ UNCHANGED <<pc, child, result, printed>>
    /\ StreamFrame

\* cmd.rs 42-54: child.wait() and the mapping of its result
StreamWait ==
    /\ entry = "stream_output"
    /\ io.main = "wait"
    /\ child.state = "exited"
    /\ \E wait_ok \in BOOLEAN :
       /\ child' = [child EXCEPT !.state = "reaped", !.observed = wait_ok]
       /\ result' = ExitCodeOf(wait_ok, child.status)
       /\ printed' = printed \cup When(~wait_ok, {"err_wait"})
    /\ io' = [io EXCEPT !.main = "returned"]
    /\ pc' = "cleanup"
    /\ StreamFrame

NextStream ==
    \/ \E ch \in Channels : ChildWrites(ch)
    \/ \E ch \in Channels : ChildCloses(ch)
    \/ StreamChildExits
    \/ SpawnStdoutReader
    \/ SpawnStderrReader
    \/ \E ch \in Channels : ReaderNext(ch)
    \/ \E ch \in Channels : ReaderPrints(ch)
    \/ JoinStdout
    \/ JoinStderr
    \/ StreamWait

SpecStream == InitStream /\ [][NextStream]_vars

\* Scheduling: the OS runs every thread that can take a step (the two readers
\* and the caller of stream_output), and the child runs its program: it goes on
\* writing whenever a write is not blocked and exits when it is through.  The
\* child is not bound to close a channel before it exits.
StreamFairness ==
    /\ \A ch \in Channels : WF_vars(ReaderNext(ch)) /\ WF_vars(ReaderPrints(ch))
    /\ \A ch \in Channels : WF_vars(ChildWrites(ch))
    /\ WF_vars(StreamChildExits)
    /\ WF_vars(SpawnStdoutReader) /\ WF_vars(SpawnStderrReader)
    /\ WF_vars(JoinStdout) /\ WF_vars(JoinStderr)
    /\ WF_vars(StreamWait)

SpecStreamLive == SpecStream /\ StreamFairness

----------------------------------------------------------------------------
(* Claims checked under SpecStream *)

\* the lines of a parent stream, in the order they were printed
RelayedLines(ch) == [i \in 1..Len(io.parent[ch]) |-> io.parent[ch][i].line]

\* the lines of a channel that are valid UTF-8, in the child's order
RECURSIVE Decodable(_)
Decodable(seq) ==
    IF seq = << >> THEN << >>
    ELSE IF Head(seq).utf8 THEN <<Head(seq)>> \o Decodable(Tail(seq))
         ELSE Decodable(Tail(seq))

IsPrefixOf(a, b) == Len(a) <= Len(b) /\ SubSeq(b, 1, Len(a)) = a

Returned == io.main = "returned"

\* the relay of the decodable lines: each parent stream holds, in the child's
\* order and without loss once stream_output has returned, exactly the valid
\* UTF-8 lines of the same channel, red on stderr only
RelayOfDecodableLines ==
    /\ entry = "stream_output" =>
       \A ch \in Channels :
          /\ IsPrefixOf(RelayedLines(ch), Decodable(io.written[ch]))
          /\ \A i \in 1..Len(io.parent[ch]) : io.parent[ch][i].red = (ch = "stderr")
          /\ Returned => RelayedLines(ch) = Decodable(io.written[ch])

\* C11: every line the child writes on a channel is written to the parent's
\* stream of the same name (red on stderr), none dropped, duplicated or routed
\* to the other stream, in the child's order, for any interleaving of the two
\* reader threads.
Counterexample_C11 ==
    entry = "stream_output" =>
       \A ch \in Channels :
          /\ IsPrefixOf(RelayedLines(ch), io.written[ch])
          /\ \A i \in 1..Len(io.parent[ch]) : io.parent[ch][i].red = (ch = "stderr")
          /\ Returned => RelayedLines(ch) = io.written[ch]

----------------------------------------------------------------------------
(* Claims checked under Spec, continued *)

\* C12: the uv pass-through returns the outcome of the uv process it spawned:
\* success (0) when uv exits with status 0, failure when uv exits non-zero.
Counterexample_C12 ==
    (entry = "uv" /\ pc = "done" /\ child.state = "reaped") =>
        (exit_code = 0 <=> child.status = 0)

\* the caller-supplied directory exists and holds the runtime executable
CallerVenvValid ==
    /\ exists(fs0, args.venv)
    /\ exists(fs0, get_python_exec_path(args.venv))

\* the subprocesses that create an environment or a project
ProvisioningCmds == {"venv", "init"}

\* C13: when resolution has finished and the run goes on to the Installer, the
\* executable derived from the resolved environment directory exists on disk.
Counterexample_C13 ==
    (IsRun /\ pc = "install") => exists(fs, get_python_exec_path(venv))

\* C14: a caller-supplied directory that exists and holds the executable is
\* returned as it is, no provisioning subprocess is run and the manifest stays
\* empty, clean mode or not.
Theorem_C14 ==
    (entry \in {"main", "python", "venv"} /\ CallerVenvValid /\ venv # << >>) =>
        /\ Absolute(venv) = Absolute(args.venv)
        /\ IsRun => venv = args.venv
        /\ Cmds \cap ProvisioningCmds = {}
        /\ files_to_clean = << >>

Witness_C14 ==
    /\ IsRun
    /\ clean
    /\ CallerVenvValid
    /\ venv = args.venv
    /\ pc = "done"
    /\ child.state = "reaped"
    /\ removal_attempts = {}

RemovalStep ==
    \/ removal_attempts' # removal_attempts
    \/ \E p \in Range(files_to_clean) : p \in fs /\ p \notin fs'

Counterexample_C17 ==
    (IsRun /\ pc = "done") => Range(files_to_clean) \subseteq removal_attempts

\* C18: in the cleanup step a removal that fails (the path is still on disk
\* afterwards) is reported, every path of the manifest is still attempted, and
\* the exit code is the Supervisor's outcome.
Counterexample_C18 ==
    [][ (IsRun /\ pc = "cleanup" /\ clean
         /\ \E p \in Range(files_to_clean) : p \in fs /\ p \in fs') =>
            /\ printed' # printed
            /\ removal_attempts' = Range(files_to_clean)
            /\ exit_code' = result ]_vars

\* the subprocesses a step has started
NewCmds == {calls'[i].cmd : i \in (Len(calls) + 1)..Len(calls')}

\* C19: in the Installer step, with neither pyproject.toml nor requirements.txt
\* at the project root no subprocess is started and nothing is printed; each
\* file that exists gets its own install invocation (the one for
\* requirements.txt unless the one for pyproject.toml failed and ended the run),
\* with uv as with python3.
Counterexample_C19 ==
    [][ (IsRun /\ pc = "install") =>
          LET has_project == exists(fs, join(runtime_path, pyproject_toml))
              has_requirements == exists(fs, join(runtime_path, requirements_txt))
          IN /\ (~has_project /\ ~has_requirements) =>
                   (calls' = calls /\ printed' = printed)
             /\ has_project => "sync" \in NewCmds
             /\ has_requirements => ("pip" \in NewCmds \/ "err_sync" \in printed') ]_vars

----------------------------------------------------------------------------
(* The path-injection step on its own inputs: append_pwd_to_pythonpath      *)
(* (lib/py_executer_lib.rs 17-35, lib/utils.rs 7-25) applied repeatedly,    *)
(* each application reading the PYTHONPATH the previous one produced, as a  *)
(* run started from the child of another run does.                          *)

\* longest initial PYTHONPATH value, in tokens
MaxPathLen == 4
\* most applications in a row
MaxApplications == 3

\* the tokens of a PYTHONPATH value: separators, a path-list separator, names
PathTokens == {"/", ":", "proj", "x"}
PathValues == SeqsUpTo(PathTokens, MaxPathLen)

InitInject ==
    /\ entry = "append_pwd_to_pythonpath"
    /\ \E q \in BOOLEAN : args = ComposeArgs(<< >>, <<DotEnvArg>>, q)
    /\ host = ComposeHost
    /\ fs \in {ComposeFs({}), {}}
    /\ fs0 = fs
    /\ \E v \in PathValues :
         inherited = (IF v = << >> THEN EmptyMap ELSE {<<PYTHONPATH, v>>})
    /\ environ = inherited
    /\ env_file_content = EmptyMap
    /\ pc = "start"
    /\ script_path = << >>
    /\ runtime_path = cwd
    /\ uv_path = ""
    /\ python_native_path = ""
    /\ venv = << >>
    /\ files_to_clean = << >>
    /\ additional_env = EmptyMap
    /\ printed = {}
    /\ calls = << >>
    /\ child = NoChild
    /\ result = -1
    /\ removal_attempts = {}
    /\ exit_code = -1
    /\ io = NoIo

\* one application; its result is laid over the environment as .envs(additional_env)
\* does for the child, and the next application reads that environment
AppendPwdToPythonpath ==
    /\ entry = "append_pwd_to_pythonpath"
    /\ Len(calls) < MaxApplications
    /\ additional_env' = append_pwd_to_pythonpath(environ, fs, cwd)
    /\ environ' = ChildEnv(environ, additional_env')
    /\ calls' = Append(calls, [cmd |-> "append_pwd_to_pythonpath", ok |-> exists(fs, cwd)])
    /\ printed' = printed \cup When(~exists(fs, cwd), {"err_current_dir"})
    /\ UNCHANGED <<io, entry, args, host, fs, fs0, inherited, env_file_content, pc,
                   script_path, runtime_path, uv_path, python_native_path, venv,
                   files_to_clean, child, result, removal_attempts, exit_code>>

NextInject == AppendPwdToPythonpath

SpecInject == InitInject /\ [][NextInject]_vars

----------------------------------------------------------------------------
(* Claims checked under SpecInject *)

\* the entries of a path-list value: the pieces between the ':' separators
RECURSIVE PathListEntries(_, _)
PathListEntries(s, acc) ==
    IF s = << >> THEN <<acc>>
    ELSE IF Head(s) = ":" THEN <<acc>> \o PathListEntries(Tail(s), << >>)
    ELSE PathListEntries(Tail(s), Append(acc, Head(s)))

\* how many entries of the PYTHONPATH path-list are the directory
Occurrences(env, dir) ==
    LET entries == PathListEntries(env_var_or_default(env, PYTHONPATH), << >>)
    IN Cardinality({i \in 1..Len(entries) : entries[i] = to_string_lossy(dir)})

Injecting == entry = "append_pwd_to_pythonpath" /\ exists(fs, cwd)

\* an application after the first returns the empty map: it changes nothing
InjectionIdempotent ==
    (Injecting /\ Len(calls) >= 2) =>
        (additional_env = EmptyMap /\ Contains(env_var_or_default(environ, PYTHONPATH),
                                               to_string_lossy(cwd)))

\* C20: after one application to any initial value the directory is an entry
\* of the PYTHONPATH path-list, a further application changes nothing, and
\* after any number of applications the directory occurs exactly once.
Counterexample_C20 ==
    /\ (Injecting /\ Len(calls) >= 1) => Occurrences(environ, cwd) = 1
    /\ (Injecting /\ Len(calls) >= 2) => additional_env = EmptyMap

----------------------------------------------------------------------------
(* Claims checked under SpecStream and SpecStreamLive, continued *)

\* a line the child wrote that a reader has yet to take or to print
PendingLine(ch) == io.pipe[ch] # << >> \/ io.cur[ch] # << >>

\* C21: stream_output starts two reader threads, one per channel, and when it
\* has produced its result both readers have reached end-of-stream, the child
\* has exited, and no line the child wrote is still in a pipe or in a reader's
\* hands: every line the readers relay is on its parent stream.
Theorem_C21 ==
    /\ io.threads <= 2
    /\ (entry = "stream_output" /\ Returned) =>
          /\ io.threads = 2
          /\ \A ch \in Channels :
                /\ io.reader[ch] = "done"
                /\ ~io.open[ch]
                /\ ~PendingLine(ch)
                /\ RelayedLines(ch) = Decodable(io.written[ch])
          /\ child.state = "reaped"
          /\ result \in {0, 1}

Witness_C21 ==
    /\ entry = "stream_output"
    /\ Returned
    /\ io.threads = 2
    /\ \A ch \in Channels : Len(io.parent[ch]) >= 1
    /\ result = 0

\* C22: stream_output returns: with both readers draining, a child that fills a
\* pipe is unblocked, gets through its writes and exits, and the joins and the
\* wait, in their fixed order, all come to an end.
Theorem_C22 == <>(io.main = "returned")

Witness_C22 ==
    /\ entry = "stream_output"
    /\ Returned
    /\ \A ch \in Channels : Len(io.written[ch]) > PipeCap

====
